---- MODULE Spec2Model ----
(***************************************************************************)
(* State-machine model of go-s3-uploader (src/main.go): recursive zip      *)
(* extraction (extractZipFiles), directory tree building (buildTree) and   *)
(* the walk-and-upload goroutine (uploadDirectoryToS3), driven by main.    *)
(*                                                                         *)
(* A path is a sequence of segments; "ziptest/extracted/a" is              *)
(* <<"ziptest","extracted","a">>.  The file system is the pair             *)
(* (dirs, files) of path sets.  Archive entries are inputs: each time the  *)
(* range loop of extractZipFiles advances, the next entry of the archive   *)
(* being read is drawn from Entries (or the archive ends).  Every call     *)
(* into the operating system, the zip reader or the object store may fail. *)
(***************************************************************************)
EXTENDS Integers, Sequences, FiniteSets, TLC

VARIABLES
  mpc,      \* position of main
  err,      \* main's variable err
  stack,    \* activation records of extractZipFiles, innermost last
  ret,      \* value returned by the recursive extractZipFiles call that returned last
  dirs,     \* directories on disk
  files,    \* regular files on disk
  empty,    \* files on disk known to hold no bytes
  h,        \* history of the extraction (what was written, skipped, raised)
  tree,     \* result of buildTree
  stages,   \* pipeline stages main has started, in order
  up,       \* per call of uploadDirectoryToS3: its locals and position
  console,  \* what has been printed, in order
  wg,       \* sync.WaitGroup counter
  shared,   \* totalFiles and uploadedFiles when several walkers use the same pair
  sharer    \* per walker on the shared pair: its position and what it has read

fsv == <<dirs, files, empty>>
exv == <<stack, ret, h>>
mv == <<mpc, err, tree, stages>>
upv == <<up, wg>>
shv == <<shared, sharer>>
vars ==
  <<mpc, err, stack, ret, dirs, files, empty, h, tree, stages, up, console, wg,
    shared, sharer>>

----------------------------------------------------------------------------
(* Bounds *)

\* entries read in one run, over the archive and all its nested archives
MaxEntries == 4

\* files each walker counts on a shared pair of counters
SharedFiles == 2

----------------------------------------------------------------------------
(* Paths: path/filepath on a Unix build *)

Last(s) == s[Len(s)]
Front(s) == SubSeq(s, 1, Len(s) - 1)

RECURSIVE CleanFrom(_, _)
\* filepath.Clean of a relative path: drop "" and ".", resolve "..", keep a
\* leading ".." that cannot be resolved.  acc is the cleaned prefix.
CleanFrom(acc, rest) ==
  IF rest = <<>> THEN acc
  ELSE LET s == Head(rest) IN
       IF s \in {"", "."} THEN CleanFrom(acc, Tail(rest))
       ELSE IF s = ".." /\ acc # <<>> /\ Last(acc) # ".."
            THEN CleanFrom(Front(acc), Tail(rest))
            ELSE CleanFrom(Append(acc, s), Tail(rest))

Clean(p) == CleanFrom(<<>>, p)

\* filepath.Join(a, b): the elements joined by the separator, then cleaned
Join(a, b) == Clean(a \o b)

\* filepath.Dir(p) of a cleaned path ("." is the empty sequence)
Dir(p) == IF p = <<>> THEN <<>> ELSE Front(p)

\* the non-empty prefixes of p: p and its ancestors
Prefixes(p) == { SubSeq(p, 1, k) : k \in 1..Len(p) }

IsPrefix(a, b) == Len(a) <= Len(b) /\ SubSeq(b, 1, Len(a)) = a

\* the check of line 72 without the separator appended to the root
ContainedLoose(path, root) ==
  IsPrefix(Clean(root), Clean(path))

\* strings.HasPrefix(filepath.Clean(path), filepath.Clean(extractPath)+"/").
\* A cleaned path has no empty segment and no trailing separator, so the string
\* prefix "<root>/" holds exactly when root's segments are a proper prefix.
\* Clean(".") + "/" is "./", which no cleaned path starts with.
Contained(path, root) ==
  /\ Clean(root) # <<>>
  /\ Len(Clean(path)) > Len(Clean(root))
  /\ IsPrefix(Clean(root), Clean(path))

----------------------------------------------------------------------------
(* Program constants *)

zipFilePath == <<"ziptest", "big.zip">>
extractPath == <<"ziptest", "extracted">>
directoryPath == <<"ziptest", "extracted">>
uploadPrefix == <<"uploads", "">>
Sentinel == "__MACOSX"

\* the segments of the model that end with ".zip"
ZipSegments == {"in.zip", "b.zip"}

----------------------------------------------------------------------------
(* Archive entries (zip.File): Name as segments; dir is FileInfo().IsDir(),
   which for a zip entry is a Name with a trailing "/" *)

Entry(name, dir) == [name |-> name, dir |-> dir]

Entries ==
  { Entry(<<"a">>, FALSE),
    Entry(<<"d">>, TRUE),
    Entry(<<".">>, TRUE),
    Entry(<<"in.zip">>, FALSE),
    Entry(<<"in.zip">>, TRUE),
    Entry(<<"b.zip">>, FALSE),
    Entry(<<"d", "in.zip">>, FALSE),
    Entry(<<"..", "e", "a">>, FALSE),
    Entry(<<"__MACOSX", "..", "..", "in.zip">>, FALSE),
    Entry(<<"d", "__MACOSX", "a">>, FALSE) }

NoEntry == Entry(<<>>, FALSE)

\* a loop that skips nothing
UnderSentinelNever(file) == FALSE

\* strings.HasPrefix(file.Name, "__MACOSX/")
UnderSentinel(file) ==
  /\ file.name # <<>>
  /\ file.name[1] = Sentinel
  /\ (Len(file.name) > 1 \/ file.dir)

\* strings.HasSuffix(file.Name, ".zip"): a directory name ends with "/"
HasZipSuffix(file) ==
  /\ file.name # <<>>
  /\ ~file.dir
  /\ Last(file.name) \in ZipSegments

----------------------------------------------------------------------------
(* Errors *)

Err(kind, name, path) == [kind |-> kind, name |-> name, path |-> path]
Nil == Err("nil", <<>>, <<>>)
Pending == Err("pending", <<>>, <<>>)

\* an error test that never sees an error
FailedNever(e) == FALSE

\* err != nil
Failed(e) == e # Nil

----------------------------------------------------------------------------
(* File system operations *)

\* os.MkdirAll(p): fails when p or an ancestor exists and is not a directory
MkdirAllOk(p) == Prefixes(p) \cap files = {}
MkdirAllNew(p) == Prefixes(p) \ dirs

\* os.OpenFile(p, O_WRONLY|O_CREATE|O_TRUNC): fails on a directory
OpenFileOk(p) == p \notin dirs /\ Dir(p) \in dirs

\* os.Remove(p): unlink a file, or rmdir an empty directory
HasChildren(p) == \E q \in dirs \cup files : Len(q) = Len(p) + 1 /\ IsPrefix(p, q)
RemoveOk(p) == p \in files \/ (p \in dirs /\ ~HasChildren(p))

\* zip.OpenReader(p): needs a file, and an empty file is no archive
OpenReaderOk(p) == p \in files /\ p \notin empty

----------------------------------------------------------------------------
(* extractZipFiles: one activation record per call *)

Frame(zip, root) ==
  [zipFilePath |-> zip, extractPath |-> root, pc |-> "mkroot",
   file |-> NoEntry, path |-> <<>>, err |-> Nil, w |-> {}]

Top == stack[Len(stack)]
Depth == Len(stack)
SetTop(f) == [stack EXCEPT ![Len(stack)] = f]
Running(pc) == mpc = "extracting" /\ stack # <<>> /\ Top.pc = pc

\* the loop body with the containment check after the parent directory is made
NextPcCheckLate(pc, file) ==
  CASE pc = "skip" -> IF UnderSentinel(file) THEN "loop"
                      ELSE IF file.dir THEN "check" ELSE "mkparent"
    [] pc = "mkparent" -> "check"
    [] pc = "check" -> IF file.dir THEN "mkdir" ELSE "srcopen"
    [] pc = "mkdir" -> "loop"
    [] pc = "srcopen" -> "create"
    [] pc = "create" -> "copy"
    [] pc = "copy" -> "suffix"
    [] pc = "suffix" -> IF HasZipSuffix(file) THEN "nested" ELSE "loop"
    [] pc = "nested" -> "remove"
    [] pc = "remove" -> "loop"

\* lines 63-119: where the loop body goes after the statement at pc succeeded
NextPc(pc, file) ==
  CASE pc = "skip" -> IF UnderSentinel(file) THEN "loop" ELSE "check"
    [] pc = "check" -> IF file.dir THEN "mkdir" ELSE "mkparent"
    [] pc = "mkdir" -> "loop"
    [] pc = "mkparent" -> "srcopen"
    [] pc = "srcopen" -> "create"
    [] pc = "create" -> "copy"
    [] pc = "copy" -> "suffix"
    [] pc = "suffix" -> IF HasZipSuffix(file) THEN "nested" ELSE "loop"
    [] pc = "nested" -> "remove"
    [] pc = "remove" -> "loop"

Step == [Top EXCEPT !.pc = NextPc(Top.pc, Top.file)]

\* a return statement: the frame keeps the value until it is popped
Return(e) == [Top EXCEPT !.pc = "return", !.err = e]

\* an error is created (not passed on): the history keeps the first
Raise(e) == [h EXCEPT !.error = IF @ = Nil THEN e ELSE @]

Touch(op, p) == [op |-> op, path |-> p, depth |-> Depth]

\* what os.MkdirAll(p) by the current frame adds to the history
Made(p) ==
  [h EXCEPT !.touched = @ \cup { Touch("mkdir", q) : q \in MkdirAllNew(p) },
            !.out = IF Top.file # NoEntry /\ p = Top.path
                    THEN @ \cup {[path |-> p, dir |-> TRUE, depth |-> Depth]}
                    ELSE @]

\* line 52: os.MkdirAll(extractPath, 0755)
ExMkRoot ==
  /\ Running("mkroot")
  /\ \/ /\ MkdirAllOk(Top.extractPath)
        /\ dirs' = dirs \cup Prefixes(Top.extractPath)
        /\ h' = Made(Top.extractPath)
        /\ stack' = SetTop([Top EXCEPT !.pc = "open"])
     \/ /\ stack' = SetTop(Return(Err("io", <<>>, Top.extractPath)))
        /\ h' = Raise(Err("io", <<>>, Top.extractPath))
        /\ UNCHANGED dirs
  /\ UNCHANGED <<shv, mv, ret, files, empty, upv, console>>

\* line 57: zip.OpenReader(zipFilePath)
ExOpenReader ==
  /\ Running("open")
  /\ \/ /\ OpenReaderOk(Top.zipFilePath)
        /\ stack' = SetTop([Top EXCEPT !.pc = "loop"])
        /\ h' = h
     \/ /\ stack' = SetTop(Return(Err("zip", <<>>, Top.zipFilePath)))
        /\ h' = Raise(Err("zip", <<>>, Top.zipFilePath))
  /\ UNCHANGED <<shv, mv, ret, fsv, upv, console>>

\* line 63: the range loop takes the next entry, or ends (line 121)
ExNext ==
  /\ Running("loop")
  /\ \/ /\ h.entries < MaxEntries
        /\ \E file \in Entries :
             /\ stack' = SetTop([Top EXCEPT !.pc = "skip", !.file = file,
                                            !.path = <<>>, !.w = {}])
             /\ h' = [h EXCEPT !.entries = @ + 1]
     \/ /\ stack' = SetTop(Return(Nil))
        /\ h' = h
  /\ UNCHANGED <<shv, mv, ret, fsv, upv, console>>

\* lines 65-69: skip what lies under __MACOSX/, else compute the destination
ExSkip ==
  /\ Running("skip")
  /\ IF NextPc("skip", Top.file) = "loop"
     THEN /\ stack' = SetTop(Step)
          /\ h' = [h EXCEPT !.skipped = @ \cup {Top.file}]
     ELSE /\ stack' = SetTop([Step EXCEPT
                                !.path = Join(Top.extractPath, Top.file.name)])
          /\ h' = h
  /\ UNCHANGED <<shv, mv, ret, fsv, upv, console>>

\* lines 72-76: the containment check, then the branch on IsDir
ExCheck ==
  /\ Running("check")
  /\ IF ~Contained(Top.path, Top.extractPath)
     THEN /\ stack' = SetTop(Return(Err("illegal", Top.file.name, <<>>)))
          /\ h' = Raise(Err("illegal", Top.file.name, <<>>))
     ELSE /\ stack' = SetTop(Step)
          /\ h' = h
  /\ UNCHANGED <<shv, mv, ret, fsv, upv, console>>

\* lines 77-81: a directory entry
ExMkdir ==
  /\ Running("mkdir")
  /\ \/ /\ MkdirAllOk(Top.path)
        /\ dirs' = dirs \cup Prefixes(Top.path)
        /\ h' = Made(Top.path)
        /\ stack' = SetTop([Step EXCEPT !.w = @ \cup MkdirAllNew(Top.path)])
     \/ /\ stack' = SetTop(Return(Err("io", <<>>, Top.path)))
        /\ h' = Raise(Err("io", <<>>, Top.path))
        /\ UNCHANGED dirs
  /\ UNCHANGED <<shv, mv, ret, files, empty, upv, console>>

\* line 85: os.MkdirAll(filepath.Dir(path), 0755)
ExMkParent ==
  /\ Running("mkparent")
  /\ \/ /\ MkdirAllOk(Dir(Top.path))
        /\ dirs' = dirs \cup Prefixes(Dir(Top.path))
        /\ h' = Made(Dir(Top.path))
        /\ stack' = SetTop([Step EXCEPT !.w = @ \cup MkdirAllNew(Dir(Top.path))])
     \/ /\ stack' = SetTop(Return(Err("io", <<>>, Dir(Top.path))))
        /\ h' = Raise(Err("io", <<>>, Dir(Top.path)))
        /\ UNCHANGED dirs
  /\ UNCHANGED <<shv, mv, ret, files, empty, upv, console>>

\* line 90: file.Open()
ExSrcOpen ==
  /\ Running("srcopen")
  /\ \/ /\ stack' = SetTop(Step)
        /\ h' = h
     \/ /\ stack' = SetTop(Return(Err("zip", Top.file.name, Top.zipFilePath)))
        /\ h' = Raise(Err("zip", Top.file.name, Top.zipFilePath))
  /\ UNCHANGED <<shv, mv, ret, fsv, upv, console>>

\* line 96: os.OpenFile(path, O_WRONLY|O_CREATE|O_TRUNC, file.Mode())
ExCreate ==
  /\ Running("create")
  /\ \/ /\ OpenFileOk(Top.path)
        /\ files' = files \cup {Top.path}
        /\ h' = [h EXCEPT !.touched = @ \cup {Touch("create", Top.path)},
                          !.out = @ \cup {[path |-> Top.path, dir |-> FALSE,
                                           depth |-> Depth]}]
        /\ stack' = SetTop([Step EXCEPT !.w = @ \cup {Top.path}])
     \/ /\ stack' = SetTop(Return(Err("io", <<>>, Top.path)))
        /\ h' = Raise(Err("io", <<>>, Top.path))
        /\ UNCHANGED files
  /\ UNCHANGED <<shv, mv, ret, dirs, empty, upv, console>>

\* line 102: io.Copy(destFile, srcFile).  When the destination is the archive
\* being read, line 96 has truncated the source: the copy succeeds only for
\* an entry of no bytes, and leaves an empty file.
ExCopy ==
  /\ Running("copy")
  /\ \/ /\ stack' = SetTop(Step)
        /\ empty' = IF Top.path = Top.zipFilePath
                    THEN empty \cup {Top.path} ELSE empty \ {Top.path}
        /\ h' = h
     \/ /\ stack' = SetTop(Return(Err("io", Top.file.name, Top.path)))
        /\ h' = Raise(Err("io", Top.file.name, Top.path))
        /\ UNCHANGED empty
  /\ UNCHANGED <<shv, mv, ret, dirs, files, upv, console>>

\* the extraction root of the recursive call, line 109: filepath.Dir(path)
NestedRoot(f) == Dir(f.path)

\* lines 108-109: a ".zip" entry is extracted by a recursive call
ExSuffix ==
  /\ Running("suffix")
  /\ IF NextPc("suffix", Top.file) = "nested"
     THEN /\ stack' = Append(SetTop(Step), Frame(Top.path, NestedRoot(Top)))
          /\ h' = [h EXCEPT !.zips = @ \cup {[path |-> Top.path, depth |-> Depth]}]
          /\ ret' = Pending
     ELSE /\ stack' = SetTop(Step)
          /\ h' = h
          /\ ret' = ret
  /\ UNCHANGED <<shv, mv, fsv, upv, console>>

\* lines 110-112: the recursive call has returned
ExNested ==
  /\ Running("nested")
  /\ ret # Pending
  /\ IF Failed(ret)
     THEN /\ stack' = SetTop(Return(ret))
          /\ h' = h
     ELSE /\ stack' = SetTop(Step)
          /\ h' = [h EXCEPT !.unpacked = @ \cup {[path |-> Top.path, depth |-> Depth]}]
  /\ ret' = Pending
  /\ UNCHANGED <<shv, mv, fsv, upv, console>>

\* lines 114-117: os.Remove(path)
ExRemove ==
  /\ Running("remove")
  /\ \/ /\ RemoveOk(Top.path)
        /\ dirs' = dirs \ {Top.path}
        /\ files' = files \ {Top.path}
        /\ empty' = empty \ {Top.path}
        /\ h' = [h EXCEPT !.touched = @ \cup {Touch("remove", Top.path)},
                          !.removed = @ \cup {[path |-> Top.path, depth |-> Depth]}]
        /\ stack' = SetTop(Step)
     \/ /\ stack' = SetTop(Return(Err("io", <<>>, Top.path)))
        /\ h' = Raise(Err("io", <<>>, Top.path))
        /\ UNCHANGED fsv
  /\ UNCHANGED <<shv, mv, ret, upv, console>>

\* the call returns: a recursive call to line 109, the first call to main's
\* line 213
ExReturn ==
  /\ Running("return")
  /\ stack' = Front(stack)
  /\ IF Depth = 1
     THEN /\ mpc' = "extracted"
          /\ err' = Top.err
          /\ ret' = ret
     ELSE /\ ret' = Top.err
          /\ UNCHANGED <<mpc, err>>
  /\ UNCHANGED <<shv, tree, stages, h, fsv, upv, console>>

extractZipFiles ==
  \/ ExMkRoot \/ ExOpenReader \/ ExNext \/ ExSkip \/ ExCheck \/ ExMkdir
  \/ ExMkParent \/ ExSrcOpen \/ ExCreate \/ ExCopy \/ ExSuffix \/ ExNested
  \/ ExRemove \/ ExReturn

----------------------------------------------------------------------------
(* Directory listings: os.ReadDir and filepath.Walk list names in byte order *)

NameOrder == <<"__MACOSX", "a", "b.zip", "d", "e", "in.zip">>

\* the names found in directory p, sorted
SortedNames(p) ==
  SelectSeq(NameOrder, LAMBDA s : Clean(Append(p, s)) \in dirs \cup files)

----------------------------------------------------------------------------
(* buildTree *)

\* a tree builder that ignores no directory
IgnoredNone(name) == FALSE

\* line 37: file.Name() == "__MACOSX"
Ignored(name) == name = Sentinel

RECURSIVE buildTree(_)
\* lines 31-48: a node named rootPath with one child per sub-directory
buildTree(rootPath) ==
  LET subs == SelectSeq(SortedNames(rootPath),
                        LAMBDA s : Append(rootPath, s) \in dirs /\ ~Ignored(s))
  IN [Name |-> rootPath,
      Children |-> [i \in 1..Len(subs) |-> buildTree(Append(rootPath, subs[i]))]]

RECURSIVE TreeNames(_)
\* the Name of every node of a tree
TreeNames(node) ==
  {node.Name} \cup
  UNION { TreeNames(node.Children[i]) : i \in 1..Len(node.Children) }

RECURSIVE TreeLines(_, _)
\* printTree, lines 124-131: one line per node, depth first
TreeLines(node, level) ==
  LET RECURSIVE Kids(_)
      Kids(i) == IF i > Len(node.Children) THEN <<>>
                 ELSE TreeLines(node.Children[i], level + 1) \o Kids(i + 1)
  IN <<[msg |-> "tree", path |-> node.Name, err |-> Nil, n |-> level]>> \o Kids(1)

NoTree == [Name |-> <<>>, Children |-> <<>>]

----------------------------------------------------------------------------
(* uploadDirectoryToS3: one record per call *)

Calls == {1, 2}

IdleCall ==
  [pc |-> "idle", directoryPath |-> <<>>, prefix |-> <<>>, i |-> 1,
   totalFiles |-> 0, uploadedFiles |-> 0, path |-> <<>>, key |-> <<>>,
   err |-> Nil, puts |-> <<>>, emitted |-> <<>>, failures |-> <<>>,
   report |-> "none"]

StartedCall(dir, prefix) ==
  [IdleCall EXCEPT !.pc = "walk", !.directoryPath = dir, !.prefix = prefix]

\* a walk that lists the root directory only and does not descend
WalkShallow(p) ==
  IF p \in dirs
  THEN <<p>> \o [i \in 1..Len(SortedNames(p)) |-> Append(p, SortedNames(p)[i])]
  ELSE <<p>>

RECURSIVE Walk(_)
\* filepath.Walk's visiting order: the root as it was given, then what is below
\* it, each directory's names in sorted order and each path made with
\* filepath.Join(directory, name), which cleans it
Walk(p) ==
  LET names == SortedNames(p)
      RECURSIVE Below(_)
      Below(i) == IF i > Len(names) THEN <<>>
                  ELSE Walk(Join(p, <<names[i]>>)) \o Below(i + 1)
  IN IF Clean(p) \in dirs THEN <<p>> \o Below(1) ELSE <<p>>

\* strings.TrimPrefix(path, directoryPath) on the strings: when directoryPath
\* ends with the separator (a last segment "") the rest starts with a name,
\* otherwise the rest starts with the separator; a path that does not start
\* with directoryPath is left as it is
TrimPrefix(path, dir) ==
  IF dir # <<>> /\ Last(dir) = ""
  THEN IF IsPrefix(Front(dir), path) /\ Len(path) >= Len(dir)
       THEN SubSeq(path, Len(dir), Len(path))
       ELSE path
  ELSE IF IsPrefix(dir, path)
       THEN <<"">> \o SubSeq(path, Len(dir) + 1, Len(path))
       ELSE path

\* lines 172-173
Key(prefix, path, dir) == Join(prefix, TrimPrefix(path, dir))

Visiting(c) == Walk(up[c].directoryPath)[up[c].i]

\* counters that all calls share
SetCallShared(c, u) ==
  [d \in Calls |->
     IF d = c THEN u
     ELSE [up[d] EXCEPT !.totalFiles = u.totalFiles,
                        !.uploadedFiles = u.uploadedFiles]]

\* lines 155-157: the locals of a call are its own
SetCall(c, u) == [up EXCEPT ![c] = u]

\* an upload started in the background: the walk goes on at once
UploadingAsync(u, p) ==
  [u EXCEPT !.i = @ + 1, !.path = p, !.key = Key(u.prefix, p, u.directoryPath)]

\* lines 172-178: the key is computed and uploadFileToS3 is called; the walk
\* function waits for it to return
Uploading(u, p) ==
  [u EXCEPT !.pc = "open", !.path = p, !.key = Key(u.prefix, p, u.directoryPath)]

\* an upload that is never counted
UploadedNever(u) == u

\* line 186: atomic.AddInt64(&uploadedFiles, 1)
Uploaded(u) == [u EXCEPT !.uploadedFiles = @ + 1]

\* printProgress, line 204: float64(uploadedFiles) / float64(totalFiles) * 100,
\* here in hundredths of a percent as "%.2f" prints it; a zero divisor gives
\* NaN or +Inf, no number
printProgress(uploadedFiles, totalFiles) ==
  IF totalFiles = 0 THEN "NaN"
  ELSE (uploadedFiles * 100 * 100 * 2 + totalFiles) \div (2 * totalFiles)

\* a call that never signals
DoneNever(n) == n

\* wg.Done(): the counter goes down by one
Done(n) == n - 1

\* a walk function that counts before it looks at IsDir
DiscoveredAll(u, isDir) == [u EXCEPT !.totalFiles = @ + 1]

\* lines 165-169: directories return early, a file is counted
Discovered(u, isDir) == IF isDir THEN u ELSE [u EXCEPT !.totalFiles = @ + 1]

\* a walk function that swallows the error and goes on with the next path
AfterFailureGoOn(u, e) == [u EXCEPT !.pc = "walk", !.i = @ + 1]

\* the failed file is counted as uploaded: the increment before the error check
AfterFailureCounted(u, e) ==
  [u EXCEPT !.pc = "report", !.err = e, !.uploadedFiles = @ + 1]

\* lines 179-181 and 190: the walk function returns the error, which ends
\* filepath.Walk
AfterFailure(u, e) == [u EXCEPT !.pc = "report", !.err = e]

\* lines 159-169: the walk function is called for the next path
UpVisit(c) ==
  /\ up[c].pc = "walk"
  /\ up[c].i <= Len(Walk(up[c].directoryPath))
  /\ LET u == up[c]
         p == Visiting(c)
     IN \/ \* lines 160-162: Lstat or the directory read failed
           up' = SetCall(c, [u EXCEPT !.pc = "report", !.err = Err("walk", <<>>, p)])
        \/ \* lines 165-167
           /\ Clean(p) \in dirs
           /\ up' = SetCall(c, [Discovered(u, TRUE) EXCEPT !.i = @ + 1])
        \/ \* lines 169-178
           /\ Clean(p) \in files
           /\ up' = SetCall(c, Uploading(Discovered(u, FALSE), p))
  /\ UNCHANGED <<shv, mv, exv, fsv, console, wg>>

\* filepath.Walk has visited everything and returns nil
UpWalkEnd(c) ==
  /\ up[c].pc = "walk"
  /\ up[c].i > Len(Walk(up[c].directoryPath))
  /\ up' = SetCall(c, [up[c] EXCEPT !.pc = "report"])
  /\ UNCHANGED <<shv, mv, exv, fsv, console, wg>>

\* uploadFileToS3, lines 134-137: os.Open(filePath); its *PathError names the path
UpOpen(c) ==
  /\ up[c].pc = "open"
  /\ \/ up' = SetCall(c, [up[c] EXCEPT !.pc = "put"])
     \/ up' = SetCall(c, AfterFailure([up[c] EXCEPT !.failures = Append(@, up[c].path)],
                                      Err("open", <<>>, up[c].path)))
  /\ UNCHANGED <<shv, mv, exv, fsv, console, wg>>

\* uploadFileToS3, lines 140-147: s3Client.PutObject; its error is the store's
\* own and is returned as it is
UpPut(c) ==
  /\ up[c].pc = "put"
  /\ LET u == [up[c] EXCEPT !.puts = Append(@, [path |-> up[c].path, key |-> up[c].key])]
     IN \/ up' = SetCall(c, [u EXCEPT !.pc = "count"])
        \/ up' = SetCall(c, AfterFailure([u EXCEPT !.failures = Append(@, u.path)],
                                         Err("put", <<>>, <<>>)))
  /\ UNCHANGED <<shv, mv, exv, fsv, console, wg>>

\* line 186: atomic.AddInt64(&uploadedFiles, 1)
UpCount(c) ==
  /\ up[c].pc = "count"
  /\ up' = SetCall(c, [Uploaded(up[c]) EXCEPT !.pc = "progress"])
  /\ UNCHANGED <<shv, mv, exv, fsv, console, wg>>

\* lines 187-189 and 203-207: printProgress, then the walk goes on
UpProgress(c) ==
  /\ up[c].pc = "progress"
  /\ up' = SetCall(c, [up[c] EXCEPT
                          !.pc = "walk", !.i = @ + 1,
                          !.emitted = Append(@, [uploadedFiles |-> up[c].uploadedFiles,
                                                 totalFiles |-> up[c].totalFiles,
                                                 path |-> up[c].path,
                                                 progress |-> printProgress(up[c].uploadedFiles,
                                                                            up[c].totalFiles)])])
  /\ UNCHANGED <<shv, mv, exv, fsv, console, wg>>

\* lines 195-200: the outcome is printed
UpReport(c) ==
  /\ up[c].pc = "report"
  /\ up' = SetCall(c, [up[c] EXCEPT
                          !.pc = "defer",
                          !.report = IF Failed(up[c].err) THEN "error" ELSE "uploaded"])
  /\ console' = Append(console,
       IF Failed(up[c].err)
       THEN [msg |-> "Error uploading directory", path |-> up[c].directoryPath,
             err |-> up[c].err, n |-> c]
       ELSE [msg |-> "Uploaded directory", path |-> up[c].directoryPath,
             err |-> Nil, n |-> c])
  /\ UNCHANGED <<shv, mv, exv, fsv, wg>>

\* line 153: the deferred wg.Done()
UpDone(c) ==
  /\ up[c].pc = "defer"
  /\ up' = SetCall(c, [up[c] EXCEPT !.pc = "done"])
  /\ wg' = Done(wg)
  /\ UNCHANGED <<shv, mv, exv, fsv, console>>

uploadDirectoryToS3(c) ==
  \/ UpVisit(c) \/ UpWalkEnd(c) \/ UpOpen(c) \/ UpPut(c) \/ UpCount(c)
  \/ UpProgress(c) \/ UpReport(c) \/ UpDone(c)

----------------------------------------------------------------------------
(* main *)

Line(msg, e) == [msg |-> msg, path |-> <<>>, err |-> e, n |-> 0]

\* line 213: err := extractZipFiles(zipFilePath, extractPath)
MainExtract ==
  /\ mpc = "start"
  /\ mpc' = "extracting"
  /\ stack' = <<Frame(zipFilePath, extractPath)>>
  /\ stages' = Append(stages, "extract")
  /\ UNCHANGED <<shv, err, tree, ret, h, fsv, upv, console>>

\* lines 214-217
MainExtracted ==
  /\ mpc = "extracted"
  /\ IF Failed(err)
     THEN /\ mpc' = "exit"
          /\ console' = Append(console, Line("Error extracting zip files:", err))
     ELSE /\ mpc' = "build"
          /\ console' = console
  /\ UNCHANGED <<shv, err, tree, stages, exv, fsv, upv>>

\* line 219: tree, err := buildTree(extractPath); reading a directory it
\* visits may fail
MainBuild ==
  /\ mpc = "build"
  /\ stages' = Append(stages, "build")
  /\ mpc' = "built"
  /\ \/ /\ extractPath \in dirs
        /\ tree' = buildTree(extractPath)
        /\ err' = Nil
     \/ /\ \E d \in IF extractPath \in dirs THEN TreeNames(buildTree(extractPath))
                    ELSE {extractPath} :
             err' = Err("readdir", <<>>, d)
        /\ tree' = NoTree
  /\ UNCHANGED <<shv, exv, fsv, upv, console>>

\* lines 220-223
MainBuilt ==
  /\ mpc = "built"
  /\ IF Failed(err)
     THEN /\ mpc' = "exit"
          /\ console' = Append(console, Line("Error building tree:", err))
     ELSE /\ mpc' = "print"
          /\ console' = console
  /\ UNCHANGED <<shv, err, tree, stages, exv, fsv, upv>>

\* line 225: printTree(tree, 0)
MainPrint ==
  /\ mpc = "print"
  /\ stages' = Append(stages, "print")
  /\ console' = console \o TreeLines(tree, 0)
  /\ mpc' = "session"
  /\ UNCHANGED <<shv, err, tree, exv, fsv, upv>>

\* lines 232-236: session.NewSession(awsConfig)
MainSession ==
  /\ mpc = "session"
  /\ \/ /\ mpc' = "spawn"
        /\ err' = Nil
        /\ console' = console
     \/ /\ mpc' = "exit"
        /\ err' = Err("session", <<>>, <<>>)
        /\ console' = Append(console, Line("Failed to create AWS session:",
                                           Err("session", <<>>, <<>>)))
  /\ UNCHANGED <<shv, tree, stages, exv, fsv, upv>>

\* lines 251-253: wg.Add(1); go uploadDirectoryToS3(...)
MainSpawn ==
  /\ mpc = "spawn"
  /\ wg' = wg + 1
  /\ up' = [up EXCEPT ![1] = StartedCall(directoryPath, uploadPrefix)]
  /\ stages' = Append(stages, "upload")
  /\ mpc' = "wait"
  /\ UNCHANGED <<shv, err, tree, exv, fsv, console>>

\* line 256: wg.Wait()
MainWait ==
  /\ mpc = "wait"
  /\ wg = 0
  /\ mpc' = "exit"
  /\ UNCHANGED <<shv, err, tree, stages, exv, fsv, upv, console>>

main ==
  \/ MainExtract \/ MainExtracted \/ MainBuild \/ MainBuilt \/ MainPrint
  \/ MainSession \/ MainSpawn \/ MainWait

\* no walker on a shared pair of counters
ZeroCounters == [totalFiles |-> 0, uploadedFiles |-> 0]
OffSharer == [pc |-> "off", reg |-> 0, n |-> 0, seen |-> <<>>]

NoHistory ==
  [touched |-> {}, out |-> {}, skipped |-> {}, zips |-> {}, unpacked |-> {},
   removed |-> {}, entries |-> 0, error |-> Nil]

\* the working directory at start: ziptest holds the archive, or is missing
Init ==
  /\ mpc = "start"
  /\ err = Nil
  /\ stack = <<>>
  /\ ret = Pending
  /\ \/ dirs = {} /\ files = {}
     \/ dirs = {<<"ziptest">>} /\ files = {zipFilePath}
  /\ empty = {}
  /\ h = NoHistory
  /\ tree = NoTree
  /\ stages = <<>>
  /\ up = [c \in Calls |-> IdleCall]
  /\ console = <<>>
  /\ wg = 0
  /\ shared = ZeroCounters
  /\ sharer = [c \in Calls |-> OffSharer]

Next == main \/ extractZipFiles \/ \E c \in Calls : uploadDirectoryToS3(c)

Spec == Init /\ [][Next]_vars

----------------------------------------------------------------------------
(* Uploads of several directories: the caller's lines 250-256 with one
   wg.Add(1); go uploadDirectoryToS3(...) per directory, over a tree that is
   already on disk *)

UploadDirs ==
  Prefixes(<<"ziptest", "extracted", "d">>) \cup {<<"ziptest", "extracted", "e">>}

UploadFiles ==
  { <<"ziptest", "extracted", "a">>,
    <<"ziptest", "extracted", "d", "a">>,
    <<"ziptest", "extracted", "d", "b.zip">>,
    <<"ziptest", "extracted", "e", "a">> }

\* values of directoryPath: "ziptest/extracted", "ziptest/extracted/",
\* "./ziptest/extracted", "ziptest/extracted/d", "ziptest/extracted/e"
Directories ==
  { <<"ziptest", "extracted">>,
    <<"ziptest", "extracted", "">>,
    <<".", "ziptest", "extracted">>,
    <<"ziptest", "extracted", "d">>,
    <<"ziptest", "extracted", "e">> }

\* values of prefix: "uploads/" and "uploads"
KeyPrefixes == { <<"uploads", "">>, <<"uploads">> }

\* lines 250-253 for the next directory: wg.Add(1); go uploadDirectoryToS3(...)
CallerSpawn ==
  /\ mpc = "spawn"
  /\ \E c \in Calls, dir \in Directories, prefix \in KeyPrefixes :
       /\ up[c] = IdleCall
       /\ \A d \in Calls : d < c => up[d] # IdleCall
       /\ \A d \in Calls :
            up[d] # IdleCall => Clean(up[d].directoryPath) # Clean(dir)
       /\ wg' = wg + 1
       /\ up' = SetCall(c, StartedCall(dir, prefix))
       /\ mpc' = IF \A d \in Calls \ {c} : up[d] # IdleCall THEN "wait" ELSE "spawn"
  /\ UNCHANGED <<shv, err, tree, stages, exv, fsv, console>>

UploadInit ==
  /\ mpc = "spawn"
  /\ err = Nil
  /\ stack = <<>>
  /\ ret = Pending
  /\ dirs = UploadDirs
  /\ files = UploadFiles
  /\ empty = {}
  /\ h = NoHistory
  /\ tree = NoTree
  /\ stages = <<>>
  /\ up = [c \in Calls |-> IdleCall]
  /\ console = <<>>
  /\ wg = 0
  /\ shared = ZeroCounters
  /\ sharer = [c \in Calls |-> OffSharer]

UploadNext == CallerSpawn \/ MainWait \/ \E c \in Calls : uploadDirectoryToS3(c)

UploadSpec == UploadInit /\ [][UploadNext]_vars

\* the scheduler runs the main goroutine once wg.Wait() can return
FairUploadSpec == UploadSpec /\ WF_vars(MainWait)

----------------------------------------------------------------------------
(* The counter statements of the walk function, lines 169 and 186-187, run by
   two walkers on one pair totalFiles, uploadedFiles *)

\* line 169, totalFiles++ on a plain int64: the value is read ...
IncRead(c) ==
  /\ sharer[c].pc = "read"
  /\ sharer[c].n < SharedFiles
  /\ sharer' = [sharer EXCEPT ![c].pc = "write", ![c].reg = shared.totalFiles]
  /\ UNCHANGED <<shared, mv, exv, fsv, upv, console>>

\* ... and the value read plus one is written back
IncWrite(c) ==
  /\ sharer[c].pc = "write"
  /\ shared' = [shared EXCEPT !.totalFiles = sharer[c].reg + 1]
  /\ sharer' = [sharer EXCEPT ![c].pc = "add"]
  /\ UNCHANGED <<mv, exv, fsv, upv, console>>

\* line 186: atomic.AddInt64(&uploadedFiles, 1), one indivisible step
AtomicAdd(c) ==
  /\ sharer[c].pc = "add"
  /\ shared' = [shared EXCEPT !.uploadedFiles = @ + 1]
  /\ sharer' = [sharer EXCEPT ![c].pc = "progress"]
  /\ UNCHANGED <<mv, exv, fsv, upv, console>>

\* line 187: both counters are read as the arguments of printProgress
ProgressArgs(c) ==
  /\ sharer[c].pc = "progress"
  /\ sharer' = [sharer EXCEPT ![c].pc = "read", ![c].n = @ + 1,
                               ![c].seen = <<shared.uploadedFiles, shared.totalFiles>>]
  /\ UNCHANGED <<shared, mv, exv, fsv, upv, console>>

SharedInit ==
  /\ mpc = "wait"
  /\ err = Nil
  /\ stack = <<>>
  /\ ret = Pending
  /\ dirs = UploadDirs
  /\ files = UploadFiles
  /\ empty = {}
  /\ h = NoHistory
  /\ tree = NoTree
  /\ stages = <<>>
  /\ up = [c \in Calls |-> IdleCall]
  /\ console = <<>>
  /\ wg = 0
  /\ shared = ZeroCounters
  /\ sharer = [c \in Calls |-> [OffSharer EXCEPT !.pc = "read"]]

SharedNext ==
  \E c \in Calls : IncRead(c) \/ IncWrite(c) \/ AtomicAdd(c) \/ ProgressArgs(c)

SharedSpec == SharedInit /\ [][SharedNext]_vars

----------------------------------------------------------------------------
(* Notions the properties are stated in *)

FrameIds == 1..Len(stack)

\* p lies strictly inside root: root is a proper ancestor of p
StrictlyInside(p, root) == Len(p) > Len(root) /\ SubSeq(p, 1, Len(root)) = root

\* where an entry of frame f is to be written
Destination(f) == Clean(f.extractPath \o f.file.name)

\* the entry's name starts with "__MACOSX/"
SentinelEntry(file) ==
  /\ Len(file.name) >= 1
  /\ file.name[1] = "__MACOSX"
  /\ (file.dir \/ Len(file.name) >= 2)

\* a frame whose current entry escapes the frame's root
Escaping(f) ==
  f.file # NoEntry /\ ~StrictlyInside(Destination(f), f.extractPath)

\* the entry has not reached the check yet, or the call returns the
\* path-traversal error that names it
RefusedOrPending(f) ==
  \/ f.pc \in {"skip", "check"}
  \/ f.pc = "return" /\ f.err = Err("illegal", f.file.name, <<>>)

ExtractionOver == mpc \notin {"start", "extracting"}

----------------------------------------------------------------------------
(* C1 *)

\* C1 as stated: an entry whose destination is not strictly inside the root of
\* its extract call makes the call return a path-traversal error naming it, and
\* everything created, truncated or deleted lies inside the top-level root, the
\* root itself being the only other path created.
C1_AsStated ==
  /\ \A i \in FrameIds : Escaping(stack[i]) => RefusedOrPending(stack[i])
  /\ \A t \in h.touched :
       \/ StrictlyInside(t.path, extractPath)
       \/ t.op = "mkdir" /\ t.path = extractPath

\* C1 amended: an entry that is not skipped as lying under __MACOSX/ and whose
\* destination is not strictly inside the root of its extract call makes the
\* call return a path-traversal error naming it; and everything created,
\* truncated or deleted lies strictly inside the top-level root, except the root
\* and its missing ancestors, which the first MkdirAll of the top-level call
\* creates.
C1_Sandboxing ==
  /\ \A i \in FrameIds :
       Escaping(stack[i]) /\ ~SentinelEntry(stack[i].file)
         => RefusedOrPending(stack[i])
  /\ \A t \in h.touched :
       \/ StrictlyInside(t.path, extractPath)
       \/ /\ t.op = "mkdir"
          /\ t.depth = 1
          /\ t.path \in Prefixes(extractPath)

\* a nested call returns the path-traversal error for an escaping entry after
\* files were written and an archive was removed
C1_Witness ==
  /\ Depth >= 2
  /\ Escaping(Top)
  /\ Top.pc = "return"
  /\ Top.err = Err("illegal", Top.file.name, <<>>)
  /\ \E t \in h.touched : t.op = "remove"
  /\ \E t \in h.touched : t.op = "create" /\ t.depth >= 2

----------------------------------------------------------------------------
(* C2 *)

C2_NoWriteBeforeCheck ==
  \A i \in FrameIds :
    /\ stack[i].pc \in {"skip", "check"} => stack[i].w = {}
    /\ Escaping(stack[i]) => stack[i].w = {}

C2_Refused == h.error.kind = "illegal"

C2_NothingAfterwards ==
  C2_Refused =>
    /\ fsv' = fsv
    /\ h' = h
    /\ Len(stack') <= Len(stack)
    /\ \A i \in 1..Len(stack') :
         stack'[i] = stack[i] \/ (stack'[i].pc = "return" /\ stack'[i].err = h.error)

C2_ErrorReturned ==
  C2_Refused /\ ExtractionOver => err = h.error /\ stack = <<>>

\* C2: the containment check of an entry runs before any file system write for
\* that entry; an entry that fails it gets no directory and no file, nothing is
\* written and no entry is read afterwards (what was extracted before stays),
\* every enclosing call returns, and main receives the error.
C2_CheckBeforeWrite ==
  /\ [](C2_NoWriteBeforeCheck /\ C2_ErrorReturned)
  /\ [][C2_NothingAfterwards]_vars

\* main has received the path-traversal error of an entry of a nested archive,
\* with earlier entries left on disk
C2_Witness ==
  /\ mpc = "extracted"
  /\ err.kind = "illegal"
  /\ h.zips # {}
  /\ \E p \in files : StrictlyInside(p, extractPath)

----------------------------------------------------------------------------
(* C3 *)

\* the regular files below a directory
FilesBelow(dir) == { p \in files : StrictlyInside(p, dir) \/ p = dir }

C3_Bounded ==
  \A c \in Calls :
    /\ up[c].uploadedFiles <= up[c].totalFiles
    /\ up[c].report = "uploaded" =>
         /\ up[c].uploadedFiles = Cardinality(FilesBelow(up[c].directoryPath))
         /\ up[c].totalFiles = Cardinality(FilesBelow(up[c].directoryPath))

C3_NonDecreasing ==
  \A c \in Calls : up'[c].uploadedFiles >= up[c].uploadedFiles

\* C3: during one walk uploadedFiles never decreases and never exceeds
\* totalFiles, and when the walk completes successfully both equal the number
\* of regular files in the tree.
C3_ProgressMonotone == []C3_Bounded /\ [][C3_NonDecreasing]_vars

\* a walk over at least two files has completed successfully
C3_Witness ==
  \E c \in Calls : up[c].report = "uploaded" /\ up[c].uploadedFiles >= 2

----------------------------------------------------------------------------
(* C4 *)

\* the regular files of a walk, in walk order
WalkFiles(dir) == SelectSeq(Walk(dir), LAMBDA p : p \in files)

Position(seq, x) == CHOOSE k \in 1..Len(seq) : seq[k] = x

\* C4: once the open or the put of the K-th file of a walk has failed, no put
\* is attempted for a later file, no progress is emitted for the K-th or a later
\* file, the walk is over and the call does not report success.
C4_FailFast ==
  \A c \in Calls :
    up[c].failures # <<>> =>
      LET u == up[c]
          F == WalkFiles(u.directoryPath)
          K == Position(F, u.failures[1])
      IN /\ Len(u.failures) = 1
         /\ u.pc \in {"report", "defer", "done"}
         /\ u.report # "uploaded"
         /\ \A j \in 1..Len(u.puts) : Position(F, u.puts[j].path) <= K
         /\ \A j \in 1..Len(u.emitted) : Position(F, u.emitted[j].path) < K

\* a call has ended after a failure on a file that is neither the first nor the
\* last of its walk
C4_Witness ==
  \E c \in Calls :
    /\ up[c].pc = "done"
    /\ up[c].failures # <<>>
    /\ Len(up[c].emitted) >= 1
    /\ Len(up[c].emitted) + 1 < Len(WalkFiles(up[c].directoryPath))

----------------------------------------------------------------------------
(* C5 *)

\* a call of extractZipFiles is about to return success
Succeeds == mpc = "extracting" /\ stack # <<>> /\ Top.pc = "return" /\ Top.err = Nil

\* what the run wrote that is a nested archive file (the rest is content)
IsArchiveFile(o) == ~o.dir /\ Last(o.path) \in ZipSegments

\* the archives the calls in progress are reading
BeingRead == { stack[i].zipFilePath : i \in FrameIds }

C5_AllUnpacked ==
  Succeeds =>
    \A z \in h.zips :
      z.depth >= Depth =>
        /\ z \in h.unpacked
        /\ z \in h.removed
        /\ z.path \notin files \ BeingRead

C5_ContentsPresent ==
  Succeeds =>
    \A o \in h.out :
      o.depth > Depth /\ ~IsArchiveFile(o) =>
        IF o.dir THEN o.path \in dirs ELSE o.path \in files

C5_IntoContainingDirectory ==
  \A i \in FrameIds :
    i >= 2 => /\ stack[i].zipFilePath = stack[i - 1].path
              /\ stack[i].extractPath = Dir(stack[i].zipFilePath)

\* C5 as stated: when extractZipFiles returns success, every ".zip" file entry
\* it met (at any depth) was extracted, unpacked into the directory that
\* contains it and deleted, so that no nested archive file remains and the
\* contents of each nested archive are present in its containing directory.
C5_AsStated ==
  C5_AllUnpacked /\ C5_ContentsPresent /\ C5_IntoContainingDirectory

----------------------------------------------------------------------------
(* C6 *)

C6_ArchiveLeftInPlace ==
  Running("nested") /\ ret \notin {Pending, Nil} => Top.path \in files

C6_SameError ==
  h.error # Nil =>
    /\ stack # <<>> /\ Top.pc = "return" => Top.err = h.error
    /\ ret \in {Pending, h.error}
    /\ mpc = "extracted" => err = h.error

C6_SuccessMeansNoError ==
  /\ mpc = "extracted" /\ err = Nil => h.error = Nil
  /\ Succeeds => h.error = Nil

\* C6 as stated: when the recursive extraction of a nested archive returns an
\* error, every enclosing call returns that same error, the nested archive
\* file whose extraction failed is still on disk, and success is returned only
\* if no entry at any level failed.
C6_AsStated ==
  C6_ArchiveLeftInPlace /\ C6_SameError /\ C6_SuccessMeansNoError

----------------------------------------------------------------------------
(* C7 *)

C7_NoEffect ==
  \A i \in FrameIds :
    SentinelEntry(stack[i].file) =>
      /\ stack[i].pc \in {"skip", "loop", "return"}
      /\ stack[i].pc = "return" => stack[i].err = Nil
      /\ stack[i].w = {}
      /\ stack[i].path = <<>>

C7_SkipStep ==
  Running("skip") /\ SentinelEntry(Top.file) =>
    /\ fsv' = fsv
    /\ h'.touched = h.touched /\ h'.out = h.out /\ h'.zips = h.zips
    /\ h'.error = h.error
    /\ Len(stack') = Len(stack)
    /\ stack'[Len(stack')].pc = "loop"

\* C7: in every extractZipFiles call an entry whose name starts with
\* "__MACOSX/" has no file system effect: nothing is created for it, its
\* content is not opened, it is not unpacked even when its name ends with
\* ".zip", and the loop goes on with the next entry.
C7_SentinelSkip == []C7_NoEffect /\ [][C7_SkipStep]_vars

\* a nested call has skipped a sentinel entry whose name ends with ".zip"
C7_Witness ==
  /\ Depth >= 2
  /\ Top.pc = "loop"
  /\ SentinelEntry(Top.file)
  /\ Last(Top.file.name) \in ZipSegments
  /\ Top.file \in h.skipped

----------------------------------------------------------------------------
(* C8 *)

Segments(p) == { p[k] : k \in 1..Len(p) }

\* C8 as stated: no entry under "__MACOSX/" is extracted, no directory named
\* "__MACOSX" is a node of the built tree, and no file under a directory named
\* "__MACOSX" is counted in totalFiles or put to the object store.
C8_AsStated ==
  /\ C7_NoEffect
  /\ \A name \in TreeNames(tree) : "__MACOSX" \notin Segments(name)
  /\ \A c \in Calls :
       /\ up[c].pc = "open" => "__MACOSX" \notin Segments(up[c].path)
       /\ \A j \in 1..Len(up[c].puts) : "__MACOSX" \notin Segments(up[c].puts[j].path)

----------------------------------------------------------------------------
(* C9 *)

Pipeline == <<"extract", "build", "print", "upload">>
NoUpload == wg = 0 /\ \A c \in Calls : up[c] = IdleCall
BuildFailed == Len(stages) >= 2 /\ tree = NoTree

\* C9: main runs extraction to completion, then buildTree, then printTree, then
\* the upload; after an extraction error neither buildTree nor any upload step
\* happens, and after a buildTree error no upload step happens.
C9_PipelineOrder ==
  /\ stages = SubSeq(Pipeline, 1, Len(stages))
  /\ Len(stages) >= 2 => stack = <<>> /\ h.error = Nil
  /\ h.error # Nil => stages = <<"extract">> /\ tree = NoTree /\ NoUpload
  /\ BuildFailed => stages = <<"extract", "build">> /\ NoUpload
  /\ ~NoUpload => stages = Pipeline /\ tree # NoTree

\* main has stopped on a buildTree error after an extraction that unpacked a
\* nested archive
C9_Witness ==
  /\ mpc = "exit"
  /\ BuildFailed
  /\ h.unpacked # {}
  /\ NoUpload

----------------------------------------------------------------------------
(* C10 *)

\* C10 as stated: the error uploadDirectoryToS3 reports for a failed file
\* identifies that file's path, whether the open or the put failed.
C10_AsStated ==
  \A k \in 1..Len(console) :
    LET line == console[k] IN
      line.msg = "Error uploading directory" /\ up[line.n].failures # <<>> =>
        line.err.path = up[line.n].failures[1]

----------------------------------------------------------------------------
(* C11 *)

C11_PutOncePerFile ==
  \A c \in Calls :
    up[c].report = "uploaded" =>
      /\ { up[c].puts[j].path : j \in 1..Len(up[c].puts) } = FilesBelow(up[c].directoryPath)
      /\ Len(up[c].puts) = Cardinality(FilesBelow(up[c].directoryPath))

C11_DirectoriesOnlyTraversed ==
  \A c \in Calls :
    /\ \A j \in 1..Len(up[c].puts) : up[c].puts[j].path \notin dirs
    /\ up[c].pc = "walk" /\ up[c].i <= Len(Walk(up[c].directoryPath))
         /\ Visiting(c) \in dirs
       => /\ up'[c].totalFiles = up[c].totalFiles
          /\ up'[c].uploadedFiles = up[c].uploadedFiles
          /\ up'[c].puts = up[c].puts

\* C11: when a walk completes successfully the put was invoked exactly once for
\* each regular file below directoryPath and never for a directory; visiting a
\* directory changes neither totalFiles nor uploadedFiles.
C11_UploadCoverage ==
  []C11_PutOncePerFile /\ [][C11_DirectoriesOnlyTraversed]_vars

\* a walk over a tree with a sub-directory that holds a file has completed
\* successfully
C11_Witness ==
  \E c \in Calls :
    /\ up[c].report = "uploaded"
    /\ Len(up[c].puts) >= 2
    /\ \E p \in files : Len(p) > Len(up[c].directoryPath) + 1
                         /\ StrictlyInside(p, up[c].directoryPath)

----------------------------------------------------------------------------
(* C12 *)

\* the file's path relative to the directory that is uploaded
Relative(path, dir) == SubSeq(Clean(path), Len(Clean(dir)) + 1, Len(Clean(path)))

C12_KeyOf(c, path) == Clean(up[c].prefix) \o Relative(path, up[c].directoryPath)

\* C12 as stated: the key passed to the put is the prefix joined with the
\* file's path relative to directoryPath, every sub-directory segment kept in
\* order, and two files of one walk never get the same key.
C12_AsStated ==
  \A c \in Calls :
    /\ up[c].pc \in {"open", "put"} => up[c].key = C12_KeyOf(c, up[c].path)
    /\ \A j \in 1..Len(up[c].puts) :
         up[c].puts[j].key = C12_KeyOf(c, up[c].puts[j].path)
    /\ \A j, k \in 1..Len(up[c].puts) :
         up[c].puts[j].key = up[c].puts[k].key => j = k

----------------------------------------------------------------------------
(* C13 *)

\* the directories at or below root that are not at or below a directory named
\* "__MACOSX"
C13_Expected(root) ==
  {root} \cup
  { d \in dirs : /\ StrictlyInside(d, root)
                 /\ \A k \in (Len(root) + 1)..Len(d) : d[k] # "__MACOSX" }

RECURSIVE C13_InOrder(_)
\* every child is a name directly below its parent, and siblings come in the
\* order of the listing
C13_InOrder(node) ==
  /\ \A i \in 1..Len(node.Children) :
       /\ Len(node.Children[i].Name) = Len(node.Name) + 1
       /\ Front(node.Children[i].Name) = node.Name
       /\ C13_InOrder(node.Children[i])
  /\ \A i, j \in 1..Len(node.Children) :
       i < j => Position(NameOrder, Last(node.Children[i].Name))
                  < Position(NameOrder, Last(node.Children[j].Name))

\* C13: buildTree returns a root node named rootPath whose nodes have one child
\* per sub-directory, in the order of the listing, except directories named
\* "__MACOSX", whose subtree is left out; no regular file is a node; when a
\* directory cannot be listed the build returns an error and no tree.
C13_TreeFidelity ==
  /\ tree # NoTree =>
       /\ tree.Name = extractPath
       /\ TreeNames(tree) = C13_Expected(extractPath)
       /\ C13_InOrder(tree)
       /\ TreeNames(tree) \cap files = {}
  /\ mpc = "built" => (Failed(err) <=> tree = NoTree)
  /\ mpc = "built" /\ Failed(err) => err.kind = "readdir"

\* a tree was built of a root with two sub-directories and a file, one of the
\* sub-directories holding a directory named "__MACOSX"
C13_Witness ==
  /\ tree # NoTree
  /\ Len(tree.Children) >= 2
  /\ \E d \in dirs : Last(d) = "__MACOSX" /\ Front(d) \in TreeNames(tree)
  /\ \E f \in files : Front(f) = extractPath

----------------------------------------------------------------------------
(* C14 *)

\* the steps of call c
C14_StepOf(c) == up'[c] # up[c]

\* what the other call does leaves a call's counters, walk and outcome alone
C14_OwnSteps ==
  \A c, d \in Calls :
    c # d /\ C14_StepOf(d) /\ up[c] # IdleCall /\ up[d] # IdleCall => up'[c] = up[c]

\* the outcome of a call is that of its own walk, whatever happened to the other
C14_OwnOutcome ==
  \A c \in Calls :
    up[c].pc = "done" =>
      IF up[c].failures = <<>> /\ ~Failed(up[c].err)
      THEN /\ up[c].report = "uploaded"
           /\ up[c].totalFiles = Cardinality(FilesBelow(Clean(up[c].directoryPath)))
           /\ up[c].uploadedFiles = up[c].totalFiles
      ELSE /\ up[c].report = "error"
           /\ up[c].uploadedFiles = Len(up[c].emitted)

\* C14: when two calls run concurrently on different directories, the counters
\* of a call are changed by its own steps only, and a failure that ends one call
\* neither stops the walk of the other nor changes its counters or its outcome.
C14_Independence == []C14_OwnOutcome /\ [][C14_OwnSteps]_vars

\* one call has ended on a failed put after the other had started, and the
\* other has then uploaded its two files
C14_Witness ==
  \E c, d \in Calls :
    /\ c # d
    /\ up[c].pc = "done" /\ up[c].report = "error" /\ up[c].err.kind = "put"
    /\ up[c].totalFiles > up[c].uploadedFiles
    /\ up[d].pc = "done" /\ up[d].report = "uploaded" /\ up[d].uploadedFiles = 2
    /\ up[d].totalFiles # up[c].totalFiles

----------------------------------------------------------------------------
(* C15 *)

\* the calls that were started and have not signalled yet
C15_Outstanding == { c \in Calls : up[c].pc \notin {"idle", "done"} }

C15_Counter ==
  /\ wg = Cardinality(C15_Outstanding)
  /\ wg >= 0
  /\ \A c \in Calls :
       up[c].pc = "done" =>
         /\ up[c].report \in {"uploaded", "error"}
         /\ \E k \in 1..Len(console) : console[k].n = c
  /\ mpc = "exit" => \A c \in Calls : up[c].pc = "done"

C15_SignalStep ==
  /\ wg' < wg =>
       /\ wg' = wg - 1
       /\ \E c \in Calls : /\ up[c].pc = "defer" /\ up'[c].pc = "done"
                            /\ up[c].report # "none"
                            /\ \A d \in Calls \ {c} : up'[d] = up[d]
  /\ \A c \in Calls : up[c].pc = "done" => up'[c] = up[c]

\* C15: every call signals the WaitGroup exactly once, on every exit path and
\* after its report was printed; the counter never goes negative; Wait returns
\* only after every outstanding call has signalled, and it does return once
\* every call has ended.
C15_CompletionBarrier ==
  /\ []C15_Counter
  /\ [][C15_SignalStep]_vars
  /\ (\A c \in Calls : up[c].pc = "done") ~> (mpc = "exit")

\* Wait has returned after one call ended on a walk error, the other having
\* uploaded its files
C15_Witness ==
  /\ mpc = "exit"
  /\ wg = 0
  /\ \E c, d \in Calls :
       /\ up[c].report = "error" /\ up[c].err.kind = "walk"
       /\ up[d].report = "uploaded" /\ up[d].uploadedFiles >= 1

----------------------------------------------------------------------------
(* C16 *)

\* the files of call c that were counted and whose upload has neither
\* succeeded nor failed yet
C16_InFlight(c) == up[c].totalFiles - up[c].uploadedFiles - Len(up[c].failures)

C16_AtMostOne ==
  \A c \in Calls :
    /\ C16_InFlight(c) \in {0, 1}
    /\ C16_InFlight(c) = 1 <=> up[c].pc \in {"open", "put", "count"}
    /\ Len(up[c].puts) <= up[c].totalFiles

C16_DiscoverAfterReturn ==
  \A c \in Calls :
    up'[c].totalFiles > up[c].totalFiles =>
      /\ up[c].uploadedFiles = up[c].totalFiles
      /\ Len(up[c].puts) = up[c].totalFiles
      /\ Len(up[c].emitted) = up[c].totalFiles
      /\ up[c].failures = <<>>

\* C16: inside one call at most one upload is in flight, and the walk counts
\* the next file only after the put of the previous file has returned.
C16_Sequential == []C16_AtMostOne /\ [][C16_DiscoverAfterReturn]_vars

\* the put of a call's second file is about to run while the other call is in
\* the middle of an upload too
C16_Witness ==
  \E c, d \in Calls :
    /\ c # d
    /\ up[c].pc = "put" /\ up[c].totalFiles = 2 /\ up[c].uploadedFiles = 1
    /\ up[d].pc = "put"

----------------------------------------------------------------------------
(* C17 *)

\* increments of totalFiles and of uploadedFiles that walker c has completed
C17_Counted(c) ==
  sharer[c].n + (IF sharer[c].pc \in {"add", "progress"} THEN 1 ELSE 0)

C17_Added(c) ==
  sharer[c].n + (IF sharer[c].pc = "progress" THEN 1 ELSE 0)

\* C17 as stated: both counters are changed by indivisible increments only, so
\* that with more than one walker updating them no increment is lost: each
\* counter is the number of increments completed on it.
C17_AsStated ==
  /\ shared.totalFiles = C17_Counted(1) + C17_Counted(2)
  /\ shared.uploadedFiles = C17_Added(1) + C17_Added(2)

----------------------------------------------------------------------------
(* C18 *)

C18_CountThenPut ==
  \A c \in Calls :
    LET u == up[c]
        F == WalkFiles(u.directoryPath)
    IN /\ u.pc \in {"open", "put", "count"} =>
            /\ u.totalFiles = Position(F, u.path)
            /\ u.uploadedFiles = u.totalFiles - 1
       /\ u.pc = "progress" =>
            /\ u.uploadedFiles = Position(F, u.path)
            /\ Len(u.emitted) = u.uploadedFiles - 1
       /\ \A j \in 1..Len(u.puts) : Position(F, u.puts[j].path) <= u.totalFiles
       /\ u.failures # <<>> =>
            /\ u.totalFiles = Position(F, u.failures[1])
            /\ u.uploadedFiles = Position(F, u.failures[1]) - 1

C18_CountAfterPut ==
  \A c \in Calls :
    up'[c].uploadedFiles # up[c].uploadedFiles =>
      /\ up'[c].uploadedFiles = up[c].uploadedFiles + 1
      /\ up[c].pc = "count"
      /\ up[c].puts # <<>> /\ up[c].puts[Len(up[c].puts)].path = up[c].path
      /\ up[c].failures = <<>>
      /\ up'[c].emitted = up[c].emitted

\* C18: totalFiles is incremented before the put of a file is attempted,
\* uploadedFiles only after that put returned success and before the progress
\* of that file is emitted; when the K-th file fails the run ends with
\* totalFiles = K and uploadedFiles = K - 1.
C18_CountBeforeAttempt == []C18_CountThenPut /\ [][C18_CountAfterPut]_vars

\* a call has ended on the failed put of its third file
C18_Witness ==
  \E c \in Calls :
    /\ up[c].pc = "done"
    /\ up[c].err.kind = "put"
    /\ up[c].totalFiles = 3
    /\ up[c].uploadedFiles = 2

----------------------------------------------------------------------------
(* C19 *)

\* C19: in one call totalFiles - uploadedFiles is 0 or 1, and at every progress
\* emission uploadedFiles equals totalFiles and the divisor is not zero, so
\* every emitted percentage is 100.
C19_AlwaysHundred ==
  \A c \in Calls :
    /\ up[c].totalFiles - up[c].uploadedFiles \in {0, 1}
    /\ \A j \in 1..Len(up[c].emitted) :
         /\ up[c].emitted[j].uploadedFiles = up[c].emitted[j].totalFiles
         /\ up[c].emitted[j].totalFiles # 0
         /\ up[c].emitted[j].progress = 100 * 100

\* a call has emitted the progress of its second file
C19_Witness ==
  \E c \in Calls :
    /\ Len(up[c].emitted) >= 2
    /\ up[c].emitted[2].totalFiles = 2

====
